---------------------------- MODULE Spec2Model ----------------------------
(***************************************************************************)
(* hpplot: streaming an HP-GL file to a pen plotter over a serial line.    *)
(* Model of src/hpplot/__main__.py: the escape-sequence encoder, the three *)
(* regular-expression rewrites of the plot file, the block generator, and  *)
(* main() as a state machine over the port operations it performs.         *)
(*                                                                         *)
(* A byte is a one-token string: printable ASCII stands for itself, the    *)
(* control characters are named ("ESC", "CR", "ENQ", "ACK", "XON", "XOFF", *)
(* "NUL").  A byte string is a sequence of such tokens.                     *)
(***************************************************************************)
EXTENDS Integers, Sequences, FiniteSets, TLC

VARIABLES
    flow_control,   \* args.flow_control
    block_size,     \* args.block_size
    no_pen_select,  \* args.no_pen_select
    velocity,       \* args.velocity: <<>> for None, <<n>> for n / 10000
    file,           \* contents of args.file
    tty,            \* whether os.get_terminal_size() succeeds
    hpgl,           \* the local hpgl of main()
    pc,             \* position in main()
    i,              \* the range index of the chunks() generator
    block,          \* the loop variable block
    pos,            \* the local pos of main()
    sleeps,         \* number of time.sleep(0.1) calls made by the gates
    wire,           \* history of the operations performed on the port
    raised,         \* the exceptions raised so far, in order
    pending,        \* the exception propagating through the finally clause
    outcome         \* how main() ended

vars == <<flow_control, block_size, no_pen_select, velocity, file, tty, hpgl,
          pc, i, block, pos, sleeps, wire, raised, pending, outcome>>

NoVelocity == <<>>

(***************************************************************************)
(* Bytes and decimal text                                                  *)
(***************************************************************************)
Digits == <<"0", "1", "2", "3", "4", "5", "6", "7", "8", "9">>

IsDigit(c) == \E d \in 1..10 : Digits[d] = c

DigitVal(c) == (CHOOSE d \in 1..10 : Digits[d] = c) - 1

UpperCase == <<"A", "B", "C", "D", "E", "F", "G", "H", "I", "J", "K", "L", "M",
               "N", "O", "P", "Q", "R", "S", "T", "U", "V", "W", "X", "Y", "Z">>

LowerCase == <<"a", "b", "c", "d", "e", "f", "g", "h", "i", "j", "k", "l", "m",
               "n", "o", "p", "q", "r", "s", "t", "u", "v", "w", "x", "y", "z">>

IsLetter(c) == \E k \in 1..26 : UpperCase[k] = c \/ LowerCase[k] = c

\* re.IGNORECASE comparison of a byte with an upper-case ASCII letter
EqIgnoreCase(c, u) ==
    \/ c = u
    \/ \E k \in 1..26 : UpperCase[k] = u /\ LowerCase[k] = c

\* ord() of the control characters the program passes to escape_seq
Ord(c) ==
    CASE c = "NUL" -> 0
      [] c = "ENQ" -> 5
      [] c = "ACK" -> 6
      [] c = "CR" -> 13
      [] c = "XON" -> 17
      [] c = "XOFF" -> 19
      [] c = "ESC" -> 27

RECURSIVE NatStr(_)
NatStr(n) ==
    IF n < 10 THEN <<Digits[n + 1]>>
    ELSE NatStr(n \div 10) \o <<Digits[(n % 10) + 1]>>

\* str(int(n)).encode('ascii')
IntStr(n) == IF n < 0 THEN <<"-">> \o NatStr(0 - n) ELSE NatStr(n)

Min(a, b) == IF a < b THEN a ELSE b

\* the slice is taken from the head of the stream
SliceFromHead(s, a, b) == SubSeq(s, 1, Min(b - a, Len(s)))

\* the slice takes one byte too many
SliceInclusive(s, a, b) == SubSeq(s, a + 1, Min(b + 1, Len(s)))

\* lst[a:b] for 0 <= a, with Python's clamping of the upper index
Slice(s, a, b) == SubSeq(s, a + 1, Min(b, Len(s)))


\* s[k], or the empty token past either end of s
At(s, k) == IF k \in 1..Len(s) THEN s[k] ELSE ""

(***************************************************************************)
(* escape_seq                                                              *)
(***************************************************************************)
\* The arguments of escape_seq: None, a single character, or an integer
NoArg == [t |-> "none"]
ChrArg(c) == [t |-> "chr", c |-> c]
IntArg(n) == [t |-> "int", n |-> n]

\* "not arg": None, the empty string and the integer 0 are false
Falsy(arg) ==
    \/ arg.t = "none"
    \/ arg.t = "chr" /\ arg.c = ""
    \/ arg.t = "int" /\ arg.n = 0

ArgStr(arg) ==
    IF Falsy(arg) THEN <<>>
    ELSE IF arg.t = "chr" THEN IntStr(Ord(arg.c))
    ELSE IntStr(arg.n)

RECURSIVE JoinSemi(_)
JoinSemi(strs) ==
    IF Len(strs) = 0 THEN <<>>
    ELSE IF Len(strs) = 1 THEN strs[1]
    ELSE strs[1] \o <<";">> \o JoinSemi(Tail(strs))

escape_seq(operation, args) ==
    IF Len(args) = 0 THEN <<"ESC", ".">> \o operation
    ELSE <<"ESC">> \o <<".">> \o operation
            \o JoinSemi([k \in 1..Len(args) |-> ArgStr(args[k])]) \o <<":">>

(***************************************************************************)
(* The rewrites of the plot file.  Each Match operator gives the index of  *)
(* the last byte of the match of its pattern that starts at s[k], or 0     *)
(* when the pattern does not match there; each Sub operator is re.sub:     *)
(* the leftmost matches, not overlapping, replaced in one pass.            *)
(***************************************************************************)
\* index of the last byte of the run of digits that starts after s[j]
RECURSIVE DigitsEnd(_, _)
DigitsEnd(s, j) == IF IsDigit(At(s, j + 1)) THEN DigitsEnd(s, j + 1) ELSE j

\* (\d*[;:])* after s[j], greedy
RECURSIVE EscapeArgsEnd(_, _)
EscapeArgsEnd(s, j) ==
    LET d == DigitsEnd(s, j)
    IN  IF At(s, d + 1) \in {";", ":"} THEN EscapeArgsEnd(s, d + 1) ELSE j

\* \x1b\.[a-zA-Z\(\)](\d*[;:])*
MatchEscape(s, k) ==
    IF /\ At(s, k) = "ESC"
       /\ At(s, k + 1) = "."
       /\ (IsLetter(At(s, k + 2)) \/ At(s, k + 2) \in {"(", ")"})
    THEN EscapeArgsEnd(s, k + 2)
    ELSE 0

RECURSIVE SubEscape(_, _)
SubEscape(s, k) ==
    IF k > Len(s) THEN <<>>
    ELSE LET e == MatchEscape(s, k)
         IN  IF e > 0 THEN SubEscape(s, e + 1)
             ELSE <<s[k]>> \o SubEscape(s, k + 1)

\* VS\d+(\.\d+)?; with re.IGNORECASE
MatchVelocity(s, k) ==
    IF /\ EqIgnoreCase(At(s, k), "V")
       /\ EqIgnoreCase(At(s, k + 1), "S")
       /\ IsDigit(At(s, k + 2))
    THEN LET d == DigitsEnd(s, k + 1)
         IN  IF At(s, d + 1) = ";" THEN d + 1
             ELSE IF At(s, d + 1) = "." /\ IsDigit(At(s, d + 2))
             THEN LET e == DigitsEnd(s, d + 1)
                  IN  IF At(s, e + 1) = ";" THEN e + 1 ELSE 0
             ELSE 0
    ELSE 0

RECURSIVE SubVelocity(_, _, _)
SubVelocity(s, k, cmd) ==
    IF k > Len(s) THEN <<>>
    ELSE LET e == MatchVelocity(s, k)
         IN  IF e > 0 THEN cmd \o SubVelocity(s, e + 1, cmd)
             ELSE <<s[k]>> \o SubVelocity(s, k + 1, cmd)

\* (IN|DF); with re.IGNORECASE
MatchInitDefault(s, k) ==
    IF /\ \/ EqIgnoreCase(At(s, k), "I") /\ EqIgnoreCase(At(s, k + 1), "N")
          \/ EqIgnoreCase(At(s, k), "D") /\ EqIgnoreCase(At(s, k + 1), "F")
       /\ At(s, k + 2) = ";"
    THEN k + 2
    ELSE 0

\* the replacement is group 1 followed by velocity_cmd
RECURSIVE SubInitDefault(_, _, _)
SubInitDefault(s, k, cmd) ==
    IF k > Len(s) THEN <<>>
    ELSE LET e == MatchInitDefault(s, k)
         IN  IF e > 0
             THEN <<s[k], s[k + 1]>> \o cmd \o SubInitDefault(s, e + 1, cmd)
             ELSE <<s[k]>> \o SubInitDefault(s, k + 1, cmd)

\* SP\d?; with re.IGNORECASE
MatchPenSelect(s, k) ==
    IF EqIgnoreCase(At(s, k), "S") /\ EqIgnoreCase(At(s, k + 1), "P")
    THEN IF IsDigit(At(s, k + 2)) /\ At(s, k + 3) = ";" THEN k + 3
         ELSE IF At(s, k + 2) = ";" THEN k + 2
         ELSE 0
    ELSE 0

RECURSIVE SubPenSelect(_, _)
SubPenSelect(s, k) ==
    IF k > Len(s) THEN <<>>
    ELSE LET e == MatchPenSelect(s, k)
         IN  IF e > 0 THEN SubPenSelect(s, e + 1)
             ELSE <<s[k]>> \o SubPenSelect(s, k + 1)

\* 'VS{:.4f};'.format(v) for v = n / 10000, n a natural number
VelocityCmd(n) ==
    LET f == n % 10000
    IN  <<"V", "S">> \o NatStr(n \div 10000) \o <<".">>
          \o <<Digits[(f \div 1000) + 1], Digits[((f \div 100) % 10) + 1],
               Digits[((f \div 10) % 10) + 1], Digits[(f % 10) + 1]>>
          \o <<";">>

\* line 105
StripEscapeSequences(s) == SubEscape(s, 1)

\* lines 107-120: "if args.velocity" is false for None and for 0.0
OverrideVelocity(s, v) ==
    IF v = NoVelocity \/ v[1] = 0 THEN s
    ELSE LET cmd == VelocityCmd(v[1])
         IN  cmd \o SubInitDefault(SubVelocity(s, 1, cmd), 1, cmd)

\* lines 122-124
StripPenSelect(s, strip) == IF strip THEN SubPenSelect(s, 1) ELSE s

(***************************************************************************)
(* chunks                                                                  *)
(***************************************************************************)
\* range(0, len(lst), n) raises ValueError when n is 0
RangeRaises(n) == n = 0

\* whether index k is in range(0, length, n)
InRange(k, length, n) == n > 0 /\ k < length

RECURSIVE ChunksFrom(_, _, _)
ChunksFrom(lst, n, k) ==
    IF InRange(k, Len(lst), n)
    THEN <<Slice(lst, k, k + n)>> \o ChunksFrom(lst, n, k + n)
    ELSE <<>>

\* list(chunks(lst, n)) for n # 0
chunks(lst, n) == ChunksFrom(lst, n, 0)


(***************************************************************************)
(* query_buffer: int() of the bytes read up to CR or the read timeout      *)
(***************************************************************************)
IsSpace(c) == c \in {"CR", " "}

RECURSIVE LStrip(_)
LStrip(s) == IF Len(s) > 0 /\ IsSpace(s[1]) THEN LStrip(Tail(s)) ELSE s

RECURSIVE RStrip(_)
RStrip(s) ==
    IF Len(s) > 0 /\ IsSpace(s[Len(s)]) THEN RStrip(SubSeq(s, 1, Len(s) - 1))
    ELSE s

RECURSIVE NatVal(_)
NatVal(s) ==
    IF Len(s) = 0 THEN 0
    ELSE 10 * NatVal(SubSeq(s, 1, Len(s) - 1)) + DigitVal(s[Len(s)])

\* the digits of a stripped response, its sign removed
IntBody(s) ==
    LET t == RStrip(LStrip(s))
    IN  IF At(t, 1) \in {"+", "-"} THEN Tail(t) ELSE t

\* an empty response is taken for no free space
IntRaisesUnlessEmpty(s) ==
    LET b == IntBody(s)
    IN  \E k \in 1..Len(b) : ~IsDigit(b[k])

\* int(s) raises ValueError
IntRaises(s) ==
    LET b == IntBody(s)
    IN  Len(b) = 0 \/ \E k \in 1..Len(b) : ~IsDigit(b[k])

\* int(s) when it does not raise
IntOf(s) ==
    LET t == RStrip(LStrip(s))
    IN  IF At(t, 1) = "-" THEN 0 - NatVal(IntBody(s)) ELSE NatVal(IntBody(s))

(***************************************************************************)
(* draw_progressbar                                                        *)
(***************************************************************************)
\* The exception draw_progressbar(p, total) raises, or "" when it returns:
\* os.get_terminal_size() fails without a terminal, and // total divides
DrawProgressbarRaises(p, total) ==
    IF ~tty THEN "OSError"
    ELSE IF total = 0 THEN "ZeroDivisionError"
    ELSE ""

(***************************************************************************)
(* Bounds of the model                                                     *)
(***************************************************************************)
\* largest args.block_size
MaxBlock == 2
\* most time.sleep(0.1) calls the gates make in one run
MaxSleeps == 1

Modes == {"query", "enqack", "xonxoff", "rtscts", "dsrdtr"}

\* args.block_size is any int: negative, zero, positive
BlockSizes == -1..MaxBlock

\* the plot files of the transfer runs
PlotFiles == {<<>>, <<"P", "D", ";">>}

\* what read_until(CR) can return: a free-space count, nothing at all within
\* the read timeout, a count cut short by the timeout, or other bytes
Responses ==
    {IntStr(n) \o <<"CR">> : n \in 0..MaxBlock}
      \cup {<<>>, IntStr(MaxBlock), <<"?", "CR">>}

\* what read(1) can return: ACK, another byte, or nothing within the timeout
Answers == {<<"ACK">>, <<"NAK">>, <<>>}

(***************************************************************************)
(* The port and the exceptions                                             *)
(***************************************************************************)
\* One operation on the port: op is the method called, site the place in
\* main() that called it, data the bytes written or read, st how it ended
\* ("ok", "error" for a raised SerialException, "interrupted" for a write cut
\* short by KeyboardInterrupt, data then being the bytes that got out).
Ev(op, site, data, st) == [op |-> op, site |-> site, data |-> data, st |-> st]

\* An exception: its type, the position of main() that raised it, and the
\* number of port operations performed before it was raised
NoExc == [type |-> "none", at |-> "none", n |-> 0]
Exc(type, at, n) == [type |-> type, at |-> at, n |-> n]

\* positions of main() before the try statement, in its try clause, in its
\* except clause and in its finally clause
PreTry == {"open_file", "strip", "velocity", "pen_select", "boot",
           "setup_reset", "setup_mode", "setup_xon"}
TryBody == {"progress0", "loop", "enq", "ack", "query", "query_read",
            "write", "count", "progress"}
Handler == {"abort_flush", "abort_send", "abort_pen", "abort_park"}
Finally == {"finally_reset", "finally_close"}

\* Where control goes when an exception of the given type is raised at pc:
\* out of main() before the try statement and in the finally clause, to the
\* except clause for a KeyboardInterrupt in the try clause, to the finally
\* clause otherwise.
RaiseTarget(type) ==
    IF pc \in PreTry \cup Finally THEN "done"
    ELSE IF pc \in TryBody /\ type = "KeyboardInterrupt" THEN "abort_flush"
    ELSE "finally_reset"

\* An exception raised in the finally clause replaces the one propagating.
Raise(type) ==
    LET target == RaiseTarget(type)
    IN  /\ raised' = Append(raised, Exc(type, pc, Len(wire')))
        /\ pc' = target
        /\ pending' = IF target = "abort_flush" THEN NoExc
                      ELSE Exc(type, pc, Len(wire'))
        /\ outcome' = IF target = "done" THEN "raised" ELSE outcome

\* The first mode-setup sequence, lines 135-145
SetupSequence ==
    IF flow_control \in {"rtscts", "dsrdtr"}
    THEN escape_seq(<<"@">>, <<NoArg, IntArg(1)>>)
    ELSE IF flow_control = "xonxoff"
    THEN escape_seq(<<"I">>, <<IntArg(block_size), NoArg, NoArg, ChrArg("XOFF")>>)
    ELSE escape_seq(<<"I">>, <<IntArg(block_size), ChrArg("ENQ"), ChrArg("ACK")>>)

\* the modes with a setup sequence in the table of the spec's §4.3
HasSetupInTable == flow_control \in {"rtscts", "dsrdtr", "xonxoff"}

\* whether a mode has a setup sequence at all
HasSetup == flow_control \in {"rtscts", "dsrdtr", "xonxoff", "enqack"}

\* The port operations of the step at pc, in order
PortOps ==
    CASE pc = "boot" -> <<Ev("reset_input_buffer", "boot", <<>>, "ok")>>
      [] pc = "setup_reset" -> <<Ev("write", "setup", escape_seq(<<"R">>, <<>>), "ok")>>
      [] pc = "setup_mode" -> <<Ev("write", "setup", SetupSequence, "ok")>>
      [] pc = "setup_xon" ->
            <<Ev("write", "setup", escape_seq(<<"N">>, <<NoArg, ChrArg("XON")>>), "ok")>>
      [] pc = "enq" -> <<Ev("write", "gate", <<"ENQ">>, "ok")>>
      [] pc = "query" ->
            <<Ev("reset_input_buffer", "gate", <<>>, "ok"),
              Ev("write", "gate", escape_seq(<<"B">>, <<>>), "ok")>>
      [] pc = "write" -> <<Ev("write", "block", block, "ok")>>
      [] pc = "abort_flush" -> <<Ev("reset_output_buffer", "abort", <<>>, "ok")>>
      [] pc = "abort_send" -> <<Ev("write", "abort", escape_seq(<<"K">>, <<>>), "ok")>>
      [] pc = "abort_pen" -> <<Ev("write", "abort", <<";", "S", "P", "0", ";">>, "ok")>>
      [] pc = "abort_park" ->
            <<Ev("write", "abort",
                 <<"P", "U", "0", ",", "0", ";", "I", "N", ";">>, "ok")>>
      [] pc = "finally_reset" ->
            <<Ev("write", "teardown", escape_seq(<<"R">>, <<>>), "ok")>>
      [] pc = "finally_close" -> <<Ev("close", "teardown", <<>>, "ok")>>
      [] pc = "ack" -> <<Ev("read", "gate", <<>>, "ok")>>
      [] pc = "query_read" -> <<Ev("read", "gate", <<>>, "ok")>>
      [] OTHER -> <<>>

\* the step at pc performs its port operations and goes to next
Perform(next) ==
    /\ wire' = wire \o PortOps
    /\ pc' = next

(***************************************************************************)
(* main(), from the open port to its end                                   *)
(***************************************************************************)
Init ==
    /\ flow_control \in Modes
    /\ block_size \in BlockSizes
    /\ no_pen_select \in BOOLEAN
    /\ velocity = NoVelocity
    /\ file \in PlotFiles
    /\ tty \in BOOLEAN
    /\ hpgl = <<>>
    /\ pc = "open_file"
    /\ i = 0
    /\ block = <<>>
    /\ pos = 0
    /\ sleeps = 0
    /\ wire = <<>>
    /\ raised = <<>>
    /\ pending = NoExc
    /\ outcome = "running"

args == <<flow_control, block_size, no_pen_select, velocity, file, tty>>
locals == <<hpgl, i, block, pos, sleeps>>
excs == <<raised, pending, outcome>>

\* lines 97-98
OpenFile ==
    /\ pc = "open_file"
    /\ UNCHANGED <<args, i, block, pos, sleeps, wire>>
    /\ \/ /\ hpgl' = file
          /\ pc' = "strip"
          /\ UNCHANGED excs
       \/ /\ Raise("OSError")
          /\ UNCHANGED hpgl

\* line 105
StripEscapes ==
    /\ pc = "strip"
    /\ hpgl' = StripEscapeSequences(hpgl)
    /\ pc' = "velocity"
    /\ UNCHANGED <<args, i, block, pos, sleeps, wire, excs>>

\* lines 107-120
VelocityOverride ==
    /\ pc = "velocity"
    /\ hpgl' = OverrideVelocity(hpgl, velocity)
    /\ pc' = "pen_select"
    /\ UNCHANGED <<args, i, block, pos, sleeps, wire, excs>>

\* lines 122-124
PenSelectStrip ==
    /\ pc = "pen_select"
    /\ hpgl' = StripPenSelect(hpgl, no_pen_select)
    /\ pc' = "boot"
    /\ UNCHANGED <<args, i, block, pos, sleeps, wire, excs>>

\* lines 128-129
Boot ==
    /\ pc = "boot"
    /\ Perform("setup_reset")
    /\ UNCHANGED <<args, locals, excs>>

\* line 132
SetupReset ==
    /\ pc = "setup_reset"
    /\ Perform(IF HasSetup THEN "setup_mode" ELSE "progress0")
    /\ UNCHANGED <<args, locals, excs>>

\* lines 135-140 and 143-145
SetupMode ==
    /\ pc = "setup_mode"
    /\ Perform(IF flow_control = "xonxoff" THEN "setup_xon" ELSE "progress0")
    /\ UNCHANGED <<args, locals, excs>>

\* line 142
SetupXon ==
    /\ pc = "setup_xon"
    /\ Perform("progress0")
    /\ UNCHANGED <<args, locals, excs>>

\* lines 149 and 166
DrawProgressbar ==
    /\ pc \in {"progress0", "progress"}
    /\ UNCHANGED <<args, locals, wire>>
    /\ LET e == DrawProgressbarRaises(pos, Len(hpgl))
       IN  IF e = "" THEN pc' = "loop" /\ UNCHANGED excs
           ELSE Raise(e)

\* the Query mode has no gate either
GateOfWithoutQuery(mode) == IF mode = "enqack" THEN "enq" ELSE "write"

\* the gate of the mode, lines 151 and 157
GateOf(mode) ==
    IF mode = "enqack" THEN "enq"
    ELSE IF mode = "query" THEN "query"
    ELSE "write"

\* line 150 with lines 62-63: the generator is resumed
NextBlock ==
    /\ pc = "loop"
    /\ UNCHANGED <<args, hpgl, pos, sleeps, wire>>
    /\ IF RangeRaises(block_size)
       THEN Raise("ValueError") /\ UNCHANGED <<i, block>>
       ELSE IF InRange(i, Len(hpgl), block_size)
       THEN /\ block' = Slice(hpgl, i, i + block_size)
            /\ i' = i + block_size
            /\ pc' = GateOf(flow_control)
            /\ UNCHANGED excs
       ELSE /\ pc' = "finally_reset"
            /\ UNCHANGED <<i, block, excs>>

\* line 154
SendEnq ==
    /\ pc = "enq"
    /\ Perform("ack")
    /\ UNCHANGED <<args, locals, excs>>

\* any byte read ends the wait
AckedByAnyByte(a) == a # <<>>

\* the comparison of line 155
Acked(a) == a = <<"ACK">>

\* lines 155-156
ReadAck ==
    /\ pc = "ack"
    /\ \E a \in Answers :
          /\ wire' = Append(wire, Ev("read", "gate", a, "ok"))
          /\ IF ~Acked(a)
             THEN sleeps < MaxSleeps /\ sleeps' = sleeps + 1 /\ pc' = "ack"
             ELSE sleeps' = sleeps /\ pc' = "write"
    /\ UNCHANGED <<args, hpgl, i, block, pos, excs>>

\* lines 45-46
QueryBuffer ==
    /\ pc = "query"
    /\ Perform("query_read")
    /\ UNCHANGED <<args, locals, excs>>

\* the free space is compared with the block size, not the block
MustWaitForBlockSize(free, blk) == free < block_size

\* the comparison of line 160
MustWait(free, blk) == free < Len(blk)

\* line 47 and lines 160-161
ReadFree ==
    /\ pc = "query_read"
    /\ \E r \in Responses :
          /\ wire' = Append(wire, Ev("read", "gate", r, "ok"))
          /\ IF IntRaises(r)
             THEN Raise("ValueError") /\ sleeps' = sleeps
             ELSE /\ IF MustWait(IntOf(r), block)
                     THEN sleeps < MaxSleeps /\ sleeps' = sleeps + 1 /\ pc' = "query"
                     ELSE sleeps' = sleeps /\ pc' = "write"
                  /\ UNCHANGED excs
    /\ UNCHANGED <<args, hpgl, i, block, pos>>

\* line 163
WriteBlock ==
    /\ pc = "write"
    /\ Perform("count")
    /\ UNCHANGED <<args, locals, excs>>

\* line 164
CountBlock ==
    /\ pc = "count"
    /\ pos' = pos + Len(block)
    /\ pc' = "progress"
    /\ UNCHANGED <<args, hpgl, i, block, sleeps, wire, excs>>

\* lines 168-170
AbortFlush ==
    /\ pc = "abort_flush"
    /\ Perform("abort_send")
    /\ UNCHANGED <<args, locals, excs>>

\* the pen is stored whether or not pen-select commands were stripped
AfterAbortSendAlwaysStores == "abort_pen"

\* line 175
AfterAbortSend == IF ~no_pen_select THEN "abort_pen" ELSE "abort_park"

\* lines 172-175
AbortSend ==
    /\ pc = "abort_send"
    /\ Perform(AfterAbortSend)
    /\ UNCHANGED <<args, locals, excs>>

\* line 176
AbortPenStore ==
    /\ pc = "abort_pen"
    /\ Perform("abort_park")
    /\ UNCHANGED <<args, locals, excs>>

\* line 177
AbortPark ==
    /\ pc = "abort_park"
    /\ Perform("finally_reset")
    /\ UNCHANGED <<args, locals, excs>>

\* line 180
FinallyReset ==
    /\ pc = "finally_reset"
    /\ Perform("finally_close")
    /\ UNCHANGED <<args, locals, excs>>

\* lines 181-182: the exception that was propagating is raised again
FinallyClose ==
    /\ pc = "finally_close"
    /\ Perform("done")
    /\ outcome' = IF pending = NoExc THEN "returned" ELSE "raised"
    /\ UNCHANGED <<args, locals, raised, pending>>

\* A port operation raises SerialException: the operations of the step
\* before it are done, the failing one is recorded as "error"
IOError ==
    /\ Len(PortOps) > 0
    /\ LET n == Len(PortOps)
       IN  wire' = wire \o SubSeq(PortOps, 1, n - 1)
                        \o <<[PortOps[n] EXCEPT !.st = "error"]>>
    /\ Raise("SerialException")
    /\ UNCHANGED <<args, locals>>

\* The user's interrupt arrives between two port operations
Interrupt ==
    /\ pc # "done"
    /\ UNCHANGED <<args, locals, wire>>
    /\ Raise("KeyboardInterrupt")

\* The user's interrupt arrives inside port.write(block), after n >= 1 of
\* its bytes went out and before the call returns
InterruptWrite ==
    /\ pc = "write"
    /\ \E n \in 1..Len(block) :
          wire' = Append(wire, Ev("write", "block", SubSeq(block, 1, n), "interrupted"))
    /\ Raise("KeyboardInterrupt")
    /\ UNCHANGED <<args, locals>>

Next ==
    \/ OpenFile \/ StripEscapes \/ VelocityOverride \/ PenSelectStrip
    \/ Boot \/ SetupReset \/ SetupMode \/ SetupXon
    \/ DrawProgressbar \/ NextBlock
    \/ SendEnq \/ ReadAck \/ QueryBuffer \/ ReadFree
    \/ WriteBlock \/ CountBlock
    \/ AbortFlush \/ AbortSend \/ AbortPenStore \/ AbortPark
    \/ FinallyReset \/ FinallyClose
    \/ IOError \/ Interrupt \/ InterruptWrite

Spec == Init /\ [][Next]_vars

(***************************************************************************)
(* The rewrites alone, lines 105-124, over every file of a bounded length  *)
(***************************************************************************)
\* longest plot file of the rewrite runs
MaxRaw == 6

RawBytes == {"ESC", ".", "S", "P", ";"}

RawFiles == UNION {[1..n -> RawBytes] : n \in 0..MaxRaw}

InitPre ==
    /\ flow_control = "query"
    /\ block_size = 1
    /\ no_pen_select \in BOOLEAN
    /\ velocity \in {NoVelocity, <<15000>>}
    /\ file \in RawFiles
    /\ tty = TRUE
    /\ hpgl = file
    /\ pc = "strip"
    /\ i = 0
    /\ block = <<>>
    /\ pos = 0
    /\ sleeps = 0
    /\ wire = <<>>
    /\ raised = <<>>
    /\ pending = NoExc
    /\ outcome = "running"

NextPre == StripEscapes \/ VelocityOverride \/ PenSelectStrip

SpecPre == InitPre /\ [][NextPre]_vars

(***************************************************************************)
(* Reading the history of the port                                         *)
(***************************************************************************)
EscR == <<"ESC", ".", "R">>
EscK == <<"ESC", ".", "K">>
EscB == <<"ESC", ".", "B">>

\* the indices of the operations a site of main() performed
OpsOf(site) == {k \in 1..Len(wire) : wire[k].site = site}

\* the attempts to write a block, in order of their index
BlockWrites == OpsOf("block")

\* the number of block writes attempted before operation k
BlocksBefore(k) == Cardinality({b \in BlockWrites : b < k})

\* the blocks of the preprocessed stream, by the definition of §3: slices of
\* block_size bytes tiling the stream, the last one possibly shorter
TileLen(j) == Min(block_size, Len(hpgl) - (j - 1) * block_size)

IsPrefix(s, t) == Len(s) <= Len(t) /\ SubSeq(t, 1, Len(s)) = s

(***************************************************************************)
(* Teardown, cancellation and error reporting                              *)
(***************************************************************************)
\* C1: whenever main() has ended after the port was opened, the last two
\* port operations are the write of ESC.R and the close of the port, both
\* done, and the port was closed exactly once.
TeardownOnEveryExit ==
    pc = "done" =>
        LET n == Len(wire)
        IN  /\ n >= 2
            /\ wire[n - 1] = Ev("write", "teardown", EscR, "ok")
            /\ wire[n] = Ev("close", "teardown", <<>>, "ok")
            /\ Cardinality({k \in 1..n : wire[k].op = "close"}) = 1

\* the one exception of the run is a user interrupt raised in the block loop
CancelledInLoop ==
    /\ Len(raised) = 1
    /\ raised[1].type = "KeyboardInterrupt"
    /\ raised[1].at \in TryBody

\* the port operations of a cancellation, from the spec's §4.4
AbortOps ==
    <<Ev("reset_output_buffer", "abort", <<>>, "ok"),
      Ev("write", "abort", EscK, "ok")>>
      \o (IF no_pen_select THEN <<>>
          ELSE <<Ev("write", "abort", <<";", "S", "P", "0", ";">>, "ok")>>)
      \o <<Ev("write", "abort", <<"P", "U", "0", ",", "0", ";", "I", "N", ";">>, "ok"),
           Ev("write", "teardown", EscR, "ok"),
           Ev("close", "teardown", <<>>, "ok")>>

\* the port operations performed after the first exception was raised
AfterFirstRaise == SubSeq(wire, raised[1].n + 1, Len(wire))

\* C2: after a cancellation in the block loop that no other exception
\* follows, the port operations are the abort operations in their order and
\* nothing else (no block, no gate byte), all of them once main() has ended,
\* and main() returns.
CancelRunsAbortSequence ==
    CancelledInLoop =>
        /\ IsPrefix(AfterFirstRaise, AbortOps)
        /\ pc = "done" => AfterFirstRaise = AbortOps /\ outcome = "returned"

\* a cancellation in mid-transfer, pen-select kept, that ran to the end
CancelledMidTransfer ==
    /\ CancelledInLoop
    /\ pc = "done"
    /\ ~no_pen_select
    /\ pos > 0 /\ pos < Len(hpgl)

\* C3: when the abort sequence begins, every block write that was started
\* has completed, and pos counts every block whose write was started.
InterruptActsAtBlockBoundary ==
    pc \in Handler =>
        /\ \A k \in BlockWrites : wire[k].st = "ok"
        /\ pos = Min(Cardinality(BlockWrites) * block_size, Len(hpgl))

\* C4: when a fatal error of the transfer is followed by a failure of the
\* teardown, main() raises the error of the transfer.
EarlierFatalErrorReported ==
    ( /\ pc = "done"
      /\ Len(raised) >= 2
      /\ \/ raised[1].type = "SerialException" /\ raised[1].at \in TryBody
         \/ raised[1].type = "ValueError" /\ raised[1].at = "query_read"
      /\ raised[Len(raised)].at \in Finally )
    => outcome = "raised" /\ pending = raised[1]

(***************************************************************************)
(* The gates                                                               *)
(***************************************************************************)
\* a response as §6 gives it: decimal digits, ended by a carriage return
ResponseDigits(r) ==
    IF Len(r) > 0 /\ r[Len(r)] = "CR" THEN SubSeq(r, 1, Len(r) - 1) ELSE r

IsDecimal(r) ==
    LET d == ResponseDigits(r)
    IN  Len(d) > 0 /\ \A k \in 1..Len(d) : IsDigit(d[k])

FreeSpace(r) == NatVal(ResponseDigits(r))

\* operation k is a completed read of a gate
IsGateRead(k) ==
    wire[k].op = "read" /\ wire[k].site = "gate" /\ wire[k].st = "ok"

\* the length of the block pending at operation k
PendingLen(k) == TileLen(BlocksBefore(k) + 1)

\* operation k is a read of a free space that suffices for the pending block
IsEnoughSpace(k) ==
    IsGateRead(k) /\ IsDecimal(wire[k].data)
        /\ FreeSpace(wire[k].data) >= PendingLen(k)

\* operation k is a write of the buffer query
IsQueryWrite(k) == k \in 1..Len(wire) /\ wire[k].op = "write" /\ wire[k].data = EscB

\* C5: in Query mode every read of a response follows one write of ESC.B of
\* its own, the only one since the read or the block write before it; a
\* block write follows at once a response that suffices for the block's
\* actual length; and a response that suffices is followed by nothing but
\* the block write (or the abort or teardown of an interrupted run).
QueryGateProceedsOnFirstFit ==
    flow_control = "query" =>
        \A k \in 1..Len(wire) :
            /\ IsGateRead(k) =>
                  /\ k > 3 /\ wire[k - 1] = Ev("write", "gate", EscB, "ok")
                  /\ wire[k - 2] = Ev("reset_input_buffer", "gate", <<>>, "ok")
                  /\ ~IsQueryWrite(k - 3)
            /\ IsQueryWrite(k) /\ wire[k].st = "ok" /\ k < Len(wire) =>
                  wire[k + 1].op = "read" \/ wire[k + 1].site \in {"abort", "teardown"}
            /\ wire[k].site = "block" => k > 1 /\ IsEnoughSpace(k - 1)
            /\ k < Len(wire) /\ wire[k + 1].site \notin {"block", "abort", "teardown"}
                  => ~IsEnoughSpace(k)

\* a run of two-byte blocks that waited on a response of 1 for the first
\* block and wrote the final one-byte block on a response of 1
QueryWaitedThenWrote ==
    /\ flow_control = "query"
    /\ pc = "done" /\ outcome = "returned" /\ raised = <<>>
    /\ block_size = 2
    /\ \E k, m \in 1..Len(wire) :
          /\ IsGateRead(k) /\ wire[k].data = <<"1", "CR">>
          /\ BlocksBefore(k) = 0 /\ wire[k + 1].site = "gate"
          /\ IsGateRead(m) /\ wire[m].data = <<"1", "CR">>
          /\ BlocksBefore(m) = 1 /\ wire[m + 1].site = "block"

\* the last operation up to operation k that is not an operation of a gate
RECURSIVE GateStart(_)
GateStart(k) == IF k = 0 \/ wire[k].site # "gate" THEN k ELSE GateStart(k - 1)

\* the operations of the gate of the block written by operation k
GateSegment(k) == SubSeq(wire, GateStart(k - 1) + 1, k - 1)

\* C6: in EnqAck mode the gate of every block is one write of the inquiry
\* byte followed by N >= 1 reads of which the last, and only the last,
\* returned the acknowledge byte; and the operation after a read of the
\* acknowledge byte is the block write (or the abort or teardown).
EnqAckGatePollsUntilAck ==
    flow_control = "enqack" =>
        /\ \A k \in BlockWrites :
              LET seg == GateSegment(k)
              IN  /\ Len(seg) >= 2
                  /\ seg[1] = Ev("write", "gate", <<"ENQ">>, "ok")
                  /\ \A j \in 2..Len(seg) :
                        /\ seg[j].op = "read" /\ seg[j].st = "ok"
                        /\ Len(seg[j].data) <= 1
                        /\ (seg[j].data = <<"ACK">>) <=> (j = Len(seg))
        /\ \A k \in 1..(Len(wire) - 1) :
              IsGateRead(k) /\ wire[k].data = <<"ACK">> =>
                  wire[k + 1].site \in {"block", "abort", "teardown"}

\* a run whose second block was written after the device answered another
\* byte on the first poll and acknowledge on the second
AckOnSecondPoll ==
    /\ flow_control = "enqack"
    /\ pc = "done" /\ outcome = "returned" /\ raised = <<>>
    /\ \E k \in BlockWrites :
          /\ BlocksBefore(k) = 1
          /\ Len(GateSegment(k)) = 3
          /\ GateSegment(k)[2].data = <<"NAK">>

\* the block-size field of ESC.I as escape_seq renders it
BlockSizeField == IF block_size = 0 THEN <<>> ELSE IntStr(block_size)

\* the setup of the modes the table of §4.3 gives one
TableSetup ==
    IF flow_control \in {"rtscts", "dsrdtr"}
    THEN << <<"ESC", ".", "@", ";", "1", ":">> >>
    ELSE IF flow_control = "xonxoff"
    THEN << <<"ESC", ".", "I">> \o BlockSizeField \o <<";", ";", ";", "1", "9", ":">>,
            <<"ESC", ".", "N", ";", "1", "7", ":">> >>
    ELSE << >>

\* the setup main() sends: also a handshake-mode sequence for EnqAck
CodeSetup ==
    IF flow_control = "enqack"
    THEN << <<"ESC", ".", "I">> \o BlockSizeField \o <<";", "5", ";", "6", ":">> >>
    ELSE TableSetup

\* the data of the setup writes that were made, in order
IsSetupWrite(e) == e.site = "setup" /\ e.st = "ok"

SetupData ==
    LET es == SelectSeq(wire, IsSetupWrite)
    IN  [j \in 1..Len(es) |-> es[j].data]

\* the try statement of main() was entered
TransferBegun ==
    \/ pc \in TryBody \cup Handler \cup Finally
    \/ \E k \in 1..Len(wire) : wire[k].site \in {"gate", "block", "abort", "teardown"}

\* the writes before the first gate or block are ESC.R and then setup
SetupIs(setup) ==
    /\ \A k \in OpsOf("setup") : wire[k].op = "write"
    /\ IsPrefix(SetupData, <<EscR>> \o setup)
    /\ TransferBegun =>
          /\ SetupData = <<EscR>> \o setup
          /\ \A m \in 1..(Len(wire) - 1) :
                wire[m].site \notin {"boot", "setup"} => wire[m + 1].site # "setup"

GateTimeoutIsNotFatal ==
    \A k \in 1..Len(raised) :
        raised[k].type = "ValueError" /\ raised[k].at = "query_read"
            => wire[raised[k].n].data # <<>>

\* C9: in Query mode, once a response that is not a decimal integer was
\* read, the only port operations are those of the teardown, the write of
\* ESC.R first: no block, no gate, no abort sequence; main() is past its
\* loop with a ValueError, which it raises after the write of ESC.R and the
\* close when nothing else fails.
MalformedResponseIsFatal ==
    flow_control = "query" =>
        \A k \in 1..Len(wire) :
            IsGateRead(k) /\ ~IsDecimal(wire[k].data) =>
                /\ \A m \in (k + 1)..Len(wire) : wire[m].site = "teardown"
                /\ k < Len(wire) =>
                      wire[k + 1].op = "write" /\ wire[k + 1].data = EscR
                /\ pc \in Finally \cup {"done"}
                /\ Len(raised) >= 1
                /\ raised[1] = Exc("ValueError", "query_read", k)
                /\ pc = "done" /\ Len(raised) = 1 =>
                      /\ SubSeq(wire, k + 1, Len(wire))
                            = <<Ev("write", "teardown", EscR, "ok"),
                                Ev("close", "teardown", <<>>, "ok")>>
                      /\ outcome = "raised"
                      /\ pending = raised[1]

\* a run that ended on a malformed response to the query for its second block
MalformedAfterFirstBlock ==
    /\ flow_control = "query"
    /\ pc = "done" /\ Len(raised) = 1
    /\ pos > 0
    /\ wire[raised[1].n].data = <<"?", "CR">>

(***************************************************************************)
(* The preprocessed stream                                                 *)
(***************************************************************************)
\* s holds ESC '.' followed by a letter or a parenthesis
HasEscapeSequence(s) ==
    \E k \in 1..Len(s) :
        /\ s[k] = "ESC"
        /\ At(s, k + 1) = "."
        /\ IsLetter(At(s, k + 2)) \/ At(s, k + 2) \in {"(", ")"}

\* C10: the stream that is cut into blocks holds no escape sequence.
NoEscapeSequenceInStream ==
    pc \notin {"open_file", "strip", "velocity", "pen_select"}
        => ~HasEscapeSequence(hpgl)

\* C11: stripping the escape sequences of the stripped stream changes
\* nothing.
StrippingIsIdempotent ==
    pc = "velocity" => StripEscapeSequences(hpgl) = hpgl

(***************************************************************************)
(* The blocks                                                              *)
(***************************************************************************)
RECURSIVE Concat(_)
Concat(ss) == IF Len(ss) = 0 THEN <<>> ELSE Head(ss) \o Concat(Tail(ss))

\* the positions of main() at which the loop variable holds a block
InBlock == {"enq", "ack", "query", "query_read", "write", "count", "progress"}

\* the preprocessing is done: hpgl is the stream that is cut into blocks
Preprocessed == pc \notin {"open_file", "strip", "velocity", "pen_select"}

\* C12: for a block size of at least 1 the blocks of chunks(), in order,
\* concatenate to the preprocessed stream; none is empty, none is longer
\* than block_size, all but the last have block_size bytes; the block the
\* loop holds is the block of chunks() at its turn, and a loop that ran to
\* its end has been given all of them.
ChunksTileStream ==
    block_size >= 1 /\ Preprocessed =>
        LET cs == chunks(hpgl, block_size)
        IN  /\ Concat(cs) = hpgl
            /\ \A j \in 1..Len(cs) :
                  /\ Len(cs[j]) >= 1
                  /\ Len(cs[j]) <= block_size
                  /\ j < Len(cs) => Len(cs[j]) = block_size
            /\ pc \in InBlock =>
                  /\ i = (i \div block_size) * block_size
                  /\ (i \div block_size) \in 1..Len(cs)
                  /\ block = cs[i \div block_size]
            /\ pc \in Finally \cup {"done"} /\ raised = <<>> =>
                  i = Len(cs) * block_size

\* the loop holds the last block of a stream that block_size does not
\* divide: a block shorter than block_size, after a full one
LastBlockIsShorter ==
    /\ block_size >= 2
    /\ pc = "write"
    /\ i > block_size
    /\ Len(block) >= 1 /\ Len(block) < block_size

\* the block writes, in order
IsBlockWrite(e) == e.site = "block"

BlockData ==
    LET es == SelectSeq(wire, IsBlockWrite)
    IN  [j \in 1..Len(es) |-> es[j].data]

\* every response read so far reports a free space of at least block_size
AlwaysEnoughSpace ==
    \A k \in 1..Len(wire) :
        IsGateRead(k) =>
            IsDecimal(wire[k].data) /\ FreeSpace(wire[k].data) >= block_size

\* no cancellation and no failure of the port, the file or the terminal
NoCancelNoIOError ==
    \A k \in 1..Len(raised) :
        raised[k].type \notin {"KeyboardInterrupt", "SerialException", "OSError"}

\* the writes of the buffer query
IsQueryEv(e) == e.op = "write" /\ e.data = EscB

\* C13: a Query-mode run on a non-empty stream of L bytes with a block size
\* B >= 1, whose device always reports at least B bytes free, without
\* cancellation and without I/O error, raises nothing; when it has ended it
\* has returned, having made ceil(L / B) block writes, all completed, whose
\* data total the L bytes of the stream, and one buffer query per block.
QueryRunCompletes ==
    ( /\ flow_control = "query"
      /\ block_size >= 1
      /\ Preprocessed
      /\ Len(hpgl) > 0
      /\ NoCancelNoIOError
      /\ AlwaysEnoughSpace )
    => /\ raised = <<>>
       /\ pc = "done" =>
             /\ outcome = "returned"
             /\ Len(BlockData) = (Len(hpgl) + block_size - 1) \div block_size
             /\ \A k \in BlockWrites : wire[k].st = "ok"
             /\ Len(Concat(BlockData)) = Len(hpgl)
             /\ pos = Len(hpgl)
             /\ Len(SelectSeq(wire, IsQueryEv)) = Len(BlockData)

\* a Query-mode run of a three-byte stream in blocks of two bytes that ended
\* after two block writes, the device reporting two bytes free each time
QueryRunOfTwoBlocks ==
    /\ flow_control = "query"
    /\ block_size = 2
    /\ Len(hpgl) = 3
    /\ pc = "done" /\ outcome = "returned"
    /\ AlwaysEnoughSpace
    /\ Len(BlockData) = 2
    /\ Len(SelectSeq(wire, IsQueryEv)) = 2

(***************************************************************************)
(* Progress reporting                                                      *)
(***************************************************************************)
\* C14: a call of the progress bar never raises, so that a run with the
\* calls is the run without them: the only exception raised at a call is
\* the user's interrupt.
ProgressNeverAltersRun ==
    \A k \in 1..Len(raised) :
        raised[k].at \in {"progress0", "progress"}
            => raised[k].type = "KeyboardInterrupt"

(***************************************************************************)
(* The velocity override, lines 107-120, over every file of a bounded      *)
(* length made of the bytes of the VS, IN and DF commands                  *)
(***************************************************************************)
\* longest plot file of the velocity runs
MaxVel == 4

VelBytes == {"I", "N", "d", "f", "V", "S", "1", ";"}

VelFiles == UNION {[1..n -> VelBytes] : n \in 0..MaxVel}

\* args.velocity: not given, 0.0 and 1.5
Velocities == {NoVelocity, <<0>>, <<15000>>}

InitVel ==
    /\ flow_control = "query"
    /\ block_size = 1
    /\ no_pen_select \in BOOLEAN
    /\ velocity \in Velocities
    /\ file \in VelFiles
    /\ tty = TRUE
    /\ hpgl = file
    /\ pc = "strip"
    /\ i = 0
    /\ block = <<>>
    /\ pos = 0
    /\ sleeps = 0
    /\ wire = <<>>
    /\ raised = <<>>
    /\ pending = NoExc
    /\ outcome = "running"

SpecVel == InitVel /\ [][NextPre]_vars

\* the stream the velocity override is applied to
VelocityInput == StripEscapeSequences(file)

\* the places of s at which an IN; or a DF; stands, in any letter case
InitDefaultAt(s) == {k \in 1..Len(s) : MatchInitDefault(s, k) > 0}

\* t stands in s from index k on
StandsAt(s, k, t) ==
    k + Len(t) - 1 <= Len(s) /\ SubSeq(s, k, k + Len(t) - 1) = t

\* C15: with a velocity other than 0 given, the stream after the override
\* holds as many IN; and DF; commands, terminator included, that the
\* velocity command follows at once as its input holds IN; and DF; commands.
InitDefaultKeptAndFollowed ==
    pc = "pen_select" /\ velocity # NoVelocity /\ velocity[1] # 0 =>
        LET cmd == VelocityCmd(velocity[1])
        IN  Cardinality({k \in InitDefaultAt(hpgl) : StandsAt(hpgl, k + 3, cmd)})
                = Cardinality(InitDefaultAt(VelocityInput))

\* C16: with any velocity given, 0 included, the stream after the override
\* begins with the velocity command, and no second velocity command
\* follows the first.
OneVelocityCmdAtStart ==
    pc = "pen_select" /\ velocity # NoVelocity =>
        LET cmd == VelocityCmd(velocity[1])
        IN  /\ IsPrefix(cmd, hpgl)
            /\ MatchVelocity(hpgl, Len(cmd) + 1) = 0

(***************************************************************************)
(* The encoding of the escape sequences                                    *)
(***************************************************************************)
\* the field of an argument by the rule of §4.1: empty for an absent or
\* empty argument, the decimal code of a character, the decimal text of an
\* integer
ReferenceField(arg) ==
    IF arg.t = "none" \/ (arg.t = "chr" /\ arg.c = "") THEN <<>>
    ELSE IF arg.t = "chr" THEN IntStr(Ord(arg.c))
    ELSE IntStr(arg.n)

\* the encoding by the rule of §4.1
ReferenceEncoding(operation, arguments) ==
    <<"ESC", ".">> \o operation
        \o (IF Len(arguments) = 0 THEN <<>>
            ELSE JoinSemi([k \in 1..Len(arguments) |-> ReferenceField(arguments[k])])
                    \o <<":">>)

\* the reference encodings of the sequences that main() sets the mode up with
ReferenceSetups ==
    {ReferenceEncoding(<<"R">>, <<>>),
     ReferenceEncoding(<<"@">>, <<NoArg, IntArg(1)>>),
     ReferenceEncoding(<<"I">>, <<IntArg(block_size), NoArg, NoArg, ChrArg("XOFF")>>),
     ReferenceEncoding(<<"N">>, <<NoArg, ChrArg("XON")>>),
     ReferenceEncoding(<<"I">>, <<IntArg(block_size), ChrArg("ENQ"), ChrArg("ACK")>>)}

\* C17: every sequence escape_seq built for the setup of the mode is the
\* reference encoding of its operation and arguments.
EscapeSeqIsReferenceEncoding ==
    \A k \in OpsOf("setup") : wire[k].data \in ReferenceSetups

(***************************************************************************)
(* The order of the transfer                                               *)
(***************************************************************************)
\* C18: in every state of the block loop the data of the block writes, in
\* order, concatenate to a prefix of the preprocessed stream, pos bytes long
\* once the block is counted; in every state, a block write that did not
\* complete is followed by no gate and no block write, and in the Query and
\* EnqAck modes a block write follows at once a read of its own gate, so
\* that no two block writes share a gate.
BlocksInStreamOrder ==
    /\ pc \in TryBody =>
          /\ IsPrefix(Concat(BlockData), hpgl)
          /\ \A k \in 1..Len(wire) : wire[k].site = "block" => wire[k].st = "ok"
          /\ pc \notin {"count"} => Len(Concat(BlockData)) = pos
    /\ \A k \in 1..Len(wire) :
          wire[k].site = "block" =>
              /\ wire[k].st # "ok" =>
                    \A m \in (k + 1)..Len(wire) : wire[m].site \in {"abort", "teardown"}
              /\ flow_control \in {"query", "enqack"} => k > 1 /\ IsGateRead(k - 1)

\* the gate of the third block is open after two blocks of one byte were
\* written
GateOfThirdBlockOpen ==
    /\ pc \in {"ack", "query_read"}
    /\ raised = <<>>
    /\ block_size = 1
    /\ BlockData = << <<"P">>, <<"D">> >>
    /\ wire[Len(wire)].site = "gate"

\* C19: a run that left the block loop with no exception raised has sent
\* the whole stream: pos is the length of the preprocessed stream.
WholeStreamSentOnNormalExit ==
    pc \in Finally \cup {"done"} /\ raised = <<>> => pos = Len(hpgl)

(***************************************************************************)
(* Termination: main() from the rewrites on, with no interrupt and no      *)
(* failing call, a block size of at least 1 and a device that answers a    *)
(* gate favourably after at most MaxSleeps other answers                   *)
(***************************************************************************)
\* what the device answers to a buffer query: a free-space count, enough or
\* not, or nothing within the read timeout of line 95
LiveResponses == {r \in Responses : r = <<>> \/ ~IntRaises(r)}

InitLive ==
    /\ flow_control \in Modes
    /\ block_size \in 1..MaxBlock
    /\ no_pen_select \in BOOLEAN
    /\ velocity = NoVelocity
    /\ file \in PlotFiles
    /\ tty = TRUE
    /\ hpgl = file
    /\ pc = "strip"
    /\ i = 0
    /\ block = <<>>
    /\ pos = 0
    /\ sleeps = 0
    /\ wire = <<>>
    /\ raised = <<>>
    /\ pending = NoExc
    /\ outcome = "running"

\* line 47 and lines 160-161, the device answering as LiveResponses says
ReadFreeLive ==
    /\ ReadFree
    /\ wire'[Len(wire')].data \in LiveResponses

NextLive ==
    \/ StripEscapes \/ VelocityOverride \/ PenSelectStrip
    \/ Boot \/ SetupReset \/ SetupMode \/ SetupXon
    \/ DrawProgressbar \/ NextBlock
    \/ SendEnq \/ ReadAck \/ QueryBuffer \/ ReadFreeLive
    \/ WriteBlock \/ CountBlock
    \/ FinallyReset \/ FinallyClose

\* every call of main() returns or raises: main() takes its next step
SpecLive == InitLive /\ [][NextLive]_vars /\ WF_vars(NextLive)

\* every block was written, ESC.R was written after them and the port was
\* closed
TransferCompleted ==
    /\ pc = "done"
    /\ Concat(BlockData) = hpgl
    /\ Len(wire) >= 2
    /\ wire[Len(wire) - 1] = Ev("write", "teardown", EscR, "ok")
    /\ wire[Len(wire)] = Ev("close", "teardown", <<>>, "ok")

\* C20: the run eventually has written every block, sent the final reset
\* of the handshake and closed the port.
RunEventuallyCompletes == <>TransferCompleted

=============================================================================
